---------------------------- MODULE Spec2Model ----------------------------
(***************************************************************************)
(* A model of src/cmd/internal/ssa/rulegen/rulegen.go: the rewrite-rule    *)
(* compiler (reader, rule splitter, genMatch0, genResult0, split) and the  *)
(* procedure it emits, executed on a Term.                                 *)
(*                                                                         *)
(* Go strings are sequences of one-character strings.  Go indices are      *)
(* 0-based; the sequences here are 1-based, so s[i] in Go is s[i+1] here.  *)
(***************************************************************************)
EXTENDS Integers, Sequences, FiniteSets, TLC

VARIABLES
    pc,        \* position of the program: "read", "gen", "emitted", "run", "done", "fatal", and "split" / "splitdone"
    text,      \* the lines of the rule file
    lineno,    \* how many lines of text the scanner has read
    oprules,   \* map from opcode key to the list of its rule lines
    ops,       \* the sorted opcode keys still to generate
    rules,     \* the rule lines of the current opcode still to generate
    rulenum,   \* the rule counter of main
    w,         \* the output buffer: the statements emitted so far
    heap,      \* the Values: heap[r] is the Value with reference r; v is reference 1
    entry,     \* the heap when the emitted procedure was called
    env,       \* the Go variables of the block being executed
    ip,        \* the statement of w being executed
    ret,       \* the outcome of the call: "none", "true", "false", "panic"
    log,       \* what the call executed so far, in order
    sIn,       \* split: the argument
    sOut       \* split: the result

vars == <<pc, text, lineno, oprules, ops, rules, rulenum, w, heap, entry, env, ip, ret, log, sIn, sOut>>

genVars == <<text, lineno, oprules, ops, rules, rulenum, w>>
runVars == <<heap, entry, env, ip, ret, log>>
splitVars == <<sIn, sOut>>

-----------------------------------------------------------------------------
(* Bounds. *)

\* longest argument of split that is enumerated
MaxLen == 4

\* most children of a Value in the heap the procedure is called on
MaxArgs == 2

\* most lines of a rule file given to the reader alone
MaxLines == 2

-----------------------------------------------------------------------------
(* Strings. *)

Max(a, b) == IF a >= b THEN a ELSE b
Min(a, b) == IF a <= b THEN a ELSE b

\* s[i:] of Go, i 0-based
From(s, i) == SubSeq(s, i + 1, Len(s))

\* s[:i] of Go, i 0-based
Upto(s, i) == SubSeq(s, 1, i)

\* s[1 : len(s)-1] of Go
Inner(s) == SubSeq(s, 2, Len(s) - 1)

HasPrefixAt(s, i, sub) ==
    /\ i + Len(sub) - 1 <= Len(s)
    /\ \A j \in 1..Len(sub) : s[i + j - 1] = sub[j]

\* strings.Index: the 0-based place of the first sub in s, or -1
Index(s, sub) ==
    LET hits == {i \in 1..Len(s) : HasPrefixAt(s, i, sub)}
    IN  IF hits = {} THEN -1 ELSE (CHOOSE i \in hits : \A j \in hits : i <= j) - 1

RECURSIVE StringsSplit(_, _)
\* strings.Split(s, sep), sep not empty
StringsSplit(s, sep) ==
    LET i == Index(s, sep)
    IN  IF i < 0 THEN <<s>>
        ELSE <<Upto(s, i)>> \o StringsSplit(From(s, i + Len(sep)), sep)

RECURSIVE TrimLeft(_, _)
TrimLeft(s, cutset) ==
    IF s # <<>> /\ s[1] \in cutset THEN TrimLeft(Tail(s), cutset) ELSE s

RECURSIVE TrimRight(_, _)
TrimRight(s, cutset) ==
    IF s # <<>> /\ s[Len(s)] \in cutset THEN TrimRight(Upto(s, Len(s) - 1), cutset) ELSE s

\* strings.Trim(s, cutset)
Trim(s, cutset) == TrimRight(TrimLeft(s, cutset), cutset)

\* the white space strings.TrimSpace removes
WhiteSpace == {" ", "\t", "\n", "\r"}

TrimSpace(s) == Trim(s, WhiteSpace)

-----------------------------------------------------------------------------
(* split *)

Openers == {"(", "{", "[", "<"}
Closers == {")", "}", "]", ">"}

RECURSIVE Scan(_, _, _, _)
\* The inner loop of split from 0-based i with depth d: the place of the cut
\* (cut >= 0), or cut = -1 with the depth and nonsp at the end of s.
Scan(s, i, d, nonsp) ==
    IF i >= Len(s) THEN [cut |-> -1, d |-> d, nonsp |-> nonsp]
    ELSE LET c == s[i + 1]
         IN  IF c \in Openers THEN Scan(s, i + 1, d + 1, nonsp)
             ELSE IF c \in Closers THEN Scan(s, i + 1, d - 1, nonsp)
             ELSE IF c \in {" ", "\t"}
                  THEN IF d = 0 /\ nonsp
                       THEN [cut |-> i, d |-> d, nonsp |-> nonsp]
                       ELSE Scan(s, i + 1, d, nonsp)
             ELSE Scan(s, i + 1, d, TRUE)

RECURSIVE SplitLoop(_, _)
\* The outer loop of split; ok is FALSE where split panics.
SplitLoop(s, r) ==
    IF s = <<>> THEN [ok |-> TRUE, r |-> r]
    ELSE LET sc == Scan(s, 0, 0, FALSE)
         IN  IF sc.cut >= 0
             THEN SplitLoop(From(s, sc.cut), Append(r, TrimSpace(Upto(s, sc.cut))))
             ELSE IF sc.d # 0 THEN [ok |-> FALSE, r |-> r]
             ELSE IF sc.nonsp THEN [ok |-> TRUE, r |-> Append(r, TrimSpace(s))]
             ELSE [ok |-> TRUE, r |-> r]

split(s) == SplitLoop(s, <<>>)

-----------------------------------------------------------------------------
(* The specification of split alone: every short string over SplitAlphabet. *)

SplitAlphabet == {"(", ")", "]", " ", "\t", "a"}

SplitInputs == UNION {[1..k -> SplitAlphabet] : k \in 0..MaxLen}

NoOutput == [ok |-> TRUE, r |-> <<>>]

InitSplit ==
    /\ pc = "split"
    /\ sIn \in SplitInputs
    /\ sOut = NoOutput
    /\ text = <<>> /\ lineno = 0 /\ oprules = <<>> /\ ops = <<>> /\ rules = <<>>
    /\ rulenum = 0 /\ w = <<>>
    /\ heap = <<>> /\ entry = <<>> /\ env = <<>> /\ ip = 0
    /\ ret = "none" /\ log = <<>>

\* a call of split(sIn)
SplitCall ==
    /\ pc = "split"
    /\ sOut' = split(sIn)
    /\ pc' = "splitdone"
    /\ UNCHANGED <<genVars, runVars, sIn>>

NextSplit == SplitCall

SpecSplit == InitSplit /\ [][NextSplit]_vars

\* the value of the depth counter before the character at 1-based place i of s
DepthBefore(s, i) ==
    Cardinality({j \in 1..(i - 1) : s[j] \in Openers})
        - Cardinality({j \in 1..(i - 1) : s[j] \in Closers})

\* a space or tab of s that lies at depth 0
IsTopSpace(s, i) == s[i] \in {" ", "\t"} /\ DepthBefore(s, i) = 0

RECURSIVE JoinSp(_)
\* strings.Join(toks, " ")
JoinSp(toks) ==
    IF toks = <<>> THEN <<>>
    ELSE IF Len(toks) = 1 THEN toks[1]
    ELSE toks[1] \o <<" ">> \o JoinSp(Tail(toks))

RECURSIVE Collapse(_, _)
\* s from 1-based place i on, each run of depth-0 white space made one space
Collapse(s, i) ==
    IF i > Len(s) THEN <<>>
    ELSE IF IsTopSpace(s, i)
         THEN IF i > 1 /\ IsTopSpace(s, i - 1) THEN Collapse(s, i + 1)
              ELSE <<" ">> \o Collapse(s, i + 1)
         ELSE <<s[i]>> \o Collapse(s, i + 1)

\* s without leading and trailing white space, depth-0 runs collapsed
Normalized(s) == Trim(Collapse(s, 1), {" "})

\* C7: for every string whose depth counter ends at zero, no token split
\* returns holds a space or tab at depth 0, and the tokens joined by single
\* spaces are the input with its outer white space removed and every
\* depth-0 run of white space collapsed to one space.
C7_SplitNormalizes ==
    (pc = "splitdone" /\ DepthBefore(sIn, Len(sIn) + 1) = 0) =>
        /\ sOut.ok
        /\ \A k \in 1..Len(sOut.r) :
              \A i \in 1..Len(sOut.r[k]) : ~IsTopSpace(sOut.r[k], i)
        /\ JoinSp(sOut.r) = Normalized(sIn)

-----------------------------------------------------------------------------
(* main: the reader of the rule file *)

\* lines 67-73: the line without its comment and its outer white space
StripLine(l) ==
    LET i == Index(l, <<"/", "/">>)
    IN  TrimSpace(IF i >= 0 THEN Upto(l, i) ELSE l)

\* line 77: strings.Split(line, " ")[0][1:]
OpKey(line) == From(StringsSplit(line, <<" ">>)[1], 1)

\* line 78: oprules[op] = append(oprules[op], line)
AppendRule(m, op, line) ==
    [k \in (DOMAIN m) \cup {op} |->
        IF k = op THEN Append(IF op \in DOMAIN m THEN m[op] ELSE <<>>, line)
        ELSE m[k]]

\* the characters of the rule files, in byte order
ByteOrder ==
    <<"\t", " ", "&", "(", ")", "-", "/", "0", "1", "2", "<", ">",
      "A", "C", "F", "I", "K", "M", "N", "S", "T", "U", "[", "]",
      "a", "b", "c", "d", "e", "k", "l", "o", "t", "u", "v", "x", "y", "z", "{", "}">>

Byte(c) == CHOOSE i \in 1..Len(ByteOrder) : ByteOrder[i] = c

RECURSIVE StrLess(_, _)
\* a < b of Go strings
StrLess(a, b) ==
    IF b = <<>> THEN FALSE
    ELSE IF a = <<>> THEN TRUE
    ELSE IF a[1] # b[1] THEN Byte(a[1]) < Byte(b[1])
    ELSE StrLess(Tail(a), Tail(b))

RECURSIVE SortStrings(_)
\* lines 93-97: the keys of the map, sorted by sort.Strings
SortStrings(S) ==
    IF S = {} THEN <<>>
    ELSE LET m == CHOOSE x \in S : \A y \in S \ {x} : StrLess(x, y)
         IN  <<m>> \o SortStrings(S \ {m})

\* lines 66-79: one turn of the scanner loop
ReadLine ==
    /\ pc = "read"
    /\ lineno < Len(text)
    /\ LET line == StripLine(text[lineno + 1])
       IN  oprules' = IF line = <<>> THEN oprules
                      ELSE AppendRule(oprules, OpKey(line), line)
    /\ lineno' = lineno + 1
    /\ UNCHANGED <<pc, text, ops, rules, rulenum, w, runVars, splitVars>>

-----------------------------------------------------------------------------
(* The emitted Go code.  A statement is a record; an operand is what the     *)
(* emitted text denotes: a path from a Go variable (v.Args[0].Args[1],       *)
(* v.Type), an opcode constant (OpAdd), or text spliced in verbatim (a       *)
(* variable name, a {code} fragment, a condition).                           *)

PathExpr(base, path, fld) == [k |-> "path", text |-> base, path |-> path, fld |-> fld]
TextExpr(t) == [k |-> "text", text |-> t, path |-> <<>>, fld |-> ""]
OpConst(t) == [k |-> "op", text |-> t, path |-> <<>>, fld |-> ""]
NoExpr == [k |-> "none", text |-> <<>>, path |-> <<>>, fld |-> ""]

\* fmt.Sprintf("%s.Args[%d]", v, argnum)
ArgOf(v, argnum) == [v EXCEPT !.path = Append(@, argnum)]

\* v + ".Type", v + ".Aux", and the v.Op of line 195
FieldOf(v, fld) == [v EXCEPT !.fld = fld]

Stmt(op, name, fld, a, b, n) ==
    [op |-> op, name |-> name, fld |-> fld, a |-> a, b |-> b, n |-> n]

\* "if %s != %s {\ngoto end%d\n}\n"
IfNe(a, b, fail) == Stmt("ifne", <<>>, "", a, b, fail)
\* "%s := %s\n"
Define(name, a) == Stmt("define", name, "", a, NoExpr, 0)
\* "if !(%s) {\ngoto end%d\n}\n"
IfNot(cond, fail) == Stmt("ifnot", cond, "", NoExpr, NoExpr, fail)
\* "%s.Op = Op%s\n", "%s.Type = %s\n", "%s.Aux = %s\n"
Assign(name, fld, a) == Stmt("assign", name, fld, a, NoExpr, 0)
\* "v.Args = v.argstorage[:0]\n"
ResetArgs(name) == Stmt("reset", name, "", NoExpr, NoExpr, 0)
\* "%s := v.Block.NewValue(Op%s, TypeInvalid, nil)\n"
NewValue(name, opc) == Stmt("new", name, "", OpConst(opc), NoExpr, 0)
\* "%s.AddArg(%s)\n"
AddArg(name, a) == Stmt("addarg", name, "", a, NoExpr, 0)
\* "%s.SetType()\n"
SetType(name) == Stmt("settype", name, "", NoExpr, NoExpr, 0)
\* "switch v.Op {\n", "case Op%s:\n", "{\n", "}\n", "end%d:;\n", "}\n"
Switch == Stmt("switch", <<>>, "", NoExpr, NoExpr, 0)
Case(opc) == Stmt("case", opc, "", NoExpr, NoExpr, 0)
Open == Stmt("open", <<>>, "", NoExpr, NoExpr, 0)
Close == Stmt("close", <<>>, "", NoExpr, NoExpr, 0)
Label(n) == Stmt("label", <<>>, "", NoExpr, NoExpr, n)
EndSwitch == Stmt("endswitch", <<>>, "", NoExpr, NoExpr, 0)
\* "return true\n", "return false\n"
Return(b) == Stmt("return", <<>>, b, NoExpr, NoExpr, 0)

\* m[name] = x
Bind(m, name, x) == [k \in (DOMAIN m) \cup {name} |-> IF k = name THEN x ELSE m[k]]

RECURSIVE Itoa(_)
\* the %d of fmt.Sprintf
Itoa(n) ==
    LET digits == <<"0", "1", "2", "3", "4", "5", "6", "7", "8", "9">>
    IN  IF n < 10 THEN <<digits[n + 1]>> ELSE Itoa(n \div 10) \o <<digits[(n % 10) + 1]>>

-----------------------------------------------------------------------------
(* genMatch0.  The result is [ok, code, m]: ok is FALSE where the generator *)
(* panics (an index out of range, an imbalanced expression); code is what   *)
(* was written to w; m is the map after the call.                           *)

GenFault(m) == [ok |-> FALSE, code |-> <<>>, m |-> m]

\* a type restriction whose name is written to w and not recorded in m
MatchType_NoBind(a, v, fail, m) ==
    LET t == Inner(a)
    IN  IF Len(a) < 2 \/ t = <<>> THEN GenFault(m)
        ELSE IF t[1] = "{"
        THEN [ok |-> TRUE, code |-> <<IfNe(FieldOf(v, "Type"), TextExpr(Inner(t)), fail)>>, m |-> m]
        ELSE IF t \in DOMAIN m
        THEN [ok |-> TRUE, code |-> <<IfNe(FieldOf(v, "Type"), m[t], fail)>>, m |-> m]
        ELSE [ok |-> TRUE, code |-> <<Define(t, FieldOf(v, "Type"))>>, m |-> m]

\* lines 201-216: a type restriction <...>
MatchType(a, v, fail, m) ==
    LET t == Inner(a)
    IN  IF Len(a) < 2 \/ t = <<>> THEN GenFault(m)
        ELSE IF t[1] = "{"
        THEN [ok |-> TRUE, code |-> <<IfNe(FieldOf(v, "Type"), TextExpr(Inner(t)), fail)>>, m |-> m]
        ELSE IF t \in DOMAIN m
        THEN [ok |-> TRUE, code |-> <<IfNe(FieldOf(v, "Type"), m[t], fail)>>, m |-> m]
        ELSE [ok |-> TRUE, code |-> <<Define(t, FieldOf(v, "Type"))>>,
              m |-> Bind(m, t, FieldOf(v, "Type"))]

\* lines 217-231: an aux restriction [...]
MatchAux(a, v, fail, m) ==
    LET x == Inner(a)
    IN  IF Len(a) < 2 \/ x = <<>> THEN GenFault(m)
        ELSE IF x[1] = "{"
        THEN [ok |-> TRUE, code |-> <<IfNe(FieldOf(v, "Aux"), TextExpr(Inner(x)), fail)>>, m |-> m]
        ELSE IF x \in DOMAIN m
        THEN [ok |-> TRUE, code |-> <<IfNe(FieldOf(v, "Aux"), m[x], fail)>>, m |-> m]
        ELSE [ok |-> TRUE, code |-> <<Define(x, FieldOf(v, "Aux"))>>,
              m |-> Bind(m, x, FieldOf(v, "Aux"))]

\* a variable that is bound again at every place, m never looked up
MatchVar_Rebind(match, v, fail, m) ==
    [ok |-> TRUE, code |-> <<Define(match, v)>>, m |-> Bind(m, match, v)]

\* lines 175-186: a variable
MatchVar(match, v, fail, m) ==
    IF match \in DOMAIN m
    THEN [ok |-> TRUE, code |-> <<IfNe(v, m[match], fail)>>, m |-> m]
    ELSE [ok |-> TRUE, code |-> <<Define(match, v)>>, m |-> Bind(m, match, v)]

\* lines 193-196: the check of the opcode
MatchOp(v, opc, fail, top) ==
    IF ~top THEN <<IfNe(FieldOf(v, "Op"), OpConst(opc), fail)>> ELSE <<>>

RECURSIVE genMatch0(_, _, _, _, _)
RECURSIVE MatchArgs(_, _, _, _, _)

\* lines 199-240: the loop over s[1:], from its element `as[1]` with argnum
MatchArgs(as, v, fail, m, argnum) ==
    IF as = <<>> THEN [ok |-> TRUE, code |-> <<>>, m |-> m]
    ELSE LET a == as[1]
             positional == a[1] \notin {"<", "["}
             one == IF a[1] = "<" THEN MatchType(a, v, fail, m)
                    ELSE IF a[1] = "[" THEN MatchAux(a, v, fail, m)
                    ELSE IF a[1] = "{"
                    THEN IF Len(a) < 2 THEN GenFault(m)
                         ELSE [ok |-> TRUE,
                               code |-> <<IfNe(ArgOf(v, argnum), TextExpr(Inner(a)), fail)>>,
                               m |-> m]
                    ELSE genMatch0(a, ArgOf(v, argnum), fail, m, FALSE)
         IN  IF ~one.ok THEN one
             ELSE LET rest == MatchArgs(Tail(as), v, fail, one.m,
                                        IF positional THEN argnum + 1 ELSE argnum)
                  IN  [ok |-> rest.ok, code |-> one.code \o rest.code, m |-> rest.m]

\* lines 173-241
genMatch0(match, v, fail, m, top) ==
    IF match = <<>> THEN GenFault(m)
    ELSE IF match[1] # "(" THEN MatchVar(match, v, fail, m)
    ELSE LET s == split(Inner(match))
         IN  IF Len(match) < 2 \/ ~s.ok \/ s.r = <<>> THEN GenFault(m)
             ELSE LET args == MatchArgs(Tail(s.r), v, fail, m, 0)
                  IN  [ok |-> args.ok,
                       code |-> MatchOp(v, s.r[1], fail, top) \o args.code,
                       m |-> args.m]

\* the Go variable v, the Value the procedure is called on
VName == <<"v">>

\* lines 169-171
genMatch(match, fail) ==
    genMatch0(match, PathExpr(VName, <<>>, ""), fail, <<>>, TRUE)

-----------------------------------------------------------------------------
(* genResult0.  The result is [ok, code, v, alloc]: v is the string the     *)
(* function returns, alloc the counter *alloc after the call.               *)

NilText == <<"n", "i", "l">>

\* the head of a result whose top keeps the arguments v had
ResultHead_KeepArgs(opc, alloc, top) ==
    IF top
    THEN [v |-> VName, alloc |-> alloc, needsType |-> FALSE,
          code |-> <<Assign(VName, "Op", OpConst(opc)),
                     Assign(VName, "Aux", TextExpr(NilText))>>]
    ELSE [v |-> VName \o Itoa(alloc), alloc |-> alloc + 1, needsType |-> TRUE,
          code |-> <<NewValue(VName \o Itoa(alloc), opc)>>]

\* lines 255-265: the Value the node is built in
ResultHead(opc, alloc, top) ==
    IF top
    THEN [v |-> VName, alloc |-> alloc, needsType |-> FALSE,
          code |-> <<Assign(VName, "Op", OpConst(opc)),
                     Assign(VName, "Aux", TextExpr(NilText)),
                     ResetArgs(VName)>>]
    ELSE [v |-> VName \o Itoa(alloc), alloc |-> alloc + 1, needsType |-> TRUE,
          code |-> <<NewValue(VName \o Itoa(alloc), opc)>>]

\* lines 267-281: the text of a <...> or [...] restriction, braces removed
Unbrace(a) ==
    LET t == Inner(a)
    IN  IF t[1] = "{" THEN Inner(t) ELSE t

\* the tail of a result that calls SetType whether or not a type was given
ResultTail_Always(v, needsType) == <<SetType(v)>>

\* lines 290-292
ResultTail(v, needsType) == IF needsType THEN <<SetType(v)>> ELSE <<>>

RECURSIVE genResult0(_, _, _)
RECURSIVE ResultArgs(_, _, _, _)

\* lines 266-289: the loop over s[1:]
ResultArgs(as, v, alloc, needsType) ==
    IF as = <<>> THEN [ok |-> TRUE, code |-> <<>>, alloc |-> alloc, needsType |-> needsType]
    ELSE LET a == as[1]
             bad == [ok |-> FALSE, code |-> <<>>, alloc |-> alloc, needsType |-> needsType]
             one ==
                IF a[1] \in {"<", "["}
                THEN IF Len(a) < 2 \/ Inner(a) = <<>> THEN bad
                     ELSE [ok |-> TRUE, alloc |-> alloc,
                           code |-> <<Assign(v, IF a[1] = "<" THEN "Type" ELSE "Aux",
                                             TextExpr(Unbrace(a)))>>,
                           needsType |-> IF a[1] = "<" THEN FALSE ELSE needsType]
                ELSE IF a[1] = "{"
                THEN IF Len(a) < 2 THEN bad
                     ELSE [ok |-> TRUE, alloc |-> alloc, needsType |-> needsType,
                           code |-> <<AddArg(v, TextExpr(Inner(a)))>>]
                ELSE LET x == genResult0(a, alloc, FALSE)
                     IN  [ok |-> x.ok, alloc |-> x.alloc, needsType |-> needsType,
                          code |-> x.code \o <<AddArg(v, TextExpr(x.v))>>]
         IN  IF ~one.ok THEN one
             ELSE LET rest == ResultArgs(Tail(as), v, one.alloc, one.needsType)
                  IN  [ok |-> rest.ok, code |-> one.code \o rest.code,
                       alloc |-> rest.alloc, needsType |-> rest.needsType]

\* lines 246-294
genResult0(result, alloc, top) ==
    IF result = <<>> THEN [ok |-> FALSE, code |-> <<>>, v |-> <<>>, alloc |-> alloc]
    ELSE IF result[1] # "(" THEN [ok |-> TRUE, code |-> <<>>, v |-> result, alloc |-> alloc]
    ELSE LET s == split(Inner(result))
         IN  IF Len(result) < 2 \/ ~s.ok \/ s.r = <<>>
             THEN [ok |-> FALSE, code |-> <<>>, v |-> <<>>, alloc |-> alloc]
             ELSE LET head == ResultHead(s.r[1], alloc, top)
                      args == ResultArgs(Tail(s.r), head.v, head.alloc, head.needsType)
                  IN  [ok |-> args.ok,
                       code |-> head.code \o args.code \o ResultTail(head.v, args.needsType),
                       v |-> head.v, alloc |-> args.alloc]

\* lines 243-245
genResult(result) == genResult0(result, 0, TRUE)

-----------------------------------------------------------------------------
(* main: the rule splitter and the emitter *)

Blanks == {" ", "\t"}

\* lines 103-116: the match, the condition and the result of a rule
RuleParts(rule) ==
    LET s == StringsSplit(rule, <<"-", ">">>)
        lhs == Trim(s[1], Blanks)
        i == Index(lhs, <<"&", "&">>)
    IN  [ok |-> Len(s) = 2,
         match |-> IF i >= 0 THEN Trim(Upto(lhs, i), Blanks) ELSE lhs,
         cond |-> IF i >= 0 THEN Trim(From(lhs, i + 2), Blanks) ELSE <<>>,
         result |-> IF Len(s) = 2 THEN Trim(s[2], Blanks \cup {"\n"}) ELSE <<>>]

\* a condition whose failure jumps to the end label of the next rule
EmitCond_WrongLabel(cond, fail) ==
    IF cond # <<>> THEN <<IfNot(cond, fail + 1)>> ELSE <<>>

\* lines 127-129
EmitCond(cond, fail) == IF cond # <<>> THEN <<IfNot(cond, fail)>> ELSE <<>>

\* lines 131-135: what follows the checks of a rule
EmitTail(res, n) == res.code \o <<Return("true"), Close, Label(n)>>

\* the code of one rule with the result built before the condition is checked
EmitRule_ResultFirst(rule, n) ==
    LET p == RuleParts(rule)
        mt == genMatch(p.match, n)
        res == genResult(p.result)
    IN  IF ~p.ok \/ ~mt.ok \/ ~res.ok THEN [ok |-> FALSE, code |-> <<>>]
        ELSE [ok |-> TRUE,
              code |-> <<Open>> \o mt.code \o res.code \o EmitCond(p.cond, n)
                       \o <<Return("true"), Close, Label(n)>>]

\* lines 102-136: the code of one rule; ok is FALSE where main stops with
\* log.Fatalf or a panic
EmitRule(rule, n) ==
    LET p == RuleParts(rule)
        mt == genMatch(p.match, n)
        res == genResult(p.result)
    IN  IF ~p.ok \/ ~mt.ok \/ ~res.ok THEN [ok |-> FALSE, code |-> <<>>]
        ELSE [ok |-> TRUE,
              code |-> <<Open>> \o mt.code \o EmitCond(p.cond, n) \o EmitTail(res, n)]

\* lines 80-97: the scanner is done; the header, and the sorted opcodes
ReadDone ==
    /\ pc = "read"
    /\ lineno = Len(text)
    /\ ops' = SortStrings(DOMAIN oprules)
    /\ w' = <<Switch>>
    /\ pc' = "gen"
    /\ UNCHANGED <<text, lineno, oprules, rules, rulenum, runVars, splitVars>>

\* lines 99-100: the next opcode
GenCase ==
    /\ pc = "gen"
    /\ rules = <<>>
    /\ ops # <<>>
    /\ w' = Append(w, Case(Head(ops)))
    /\ rules' = oprules[Head(ops)]
    /\ ops' = Tail(ops)
    /\ UNCHANGED <<pc, text, lineno, oprules, rulenum, runVars, splitVars>>

\* lines 101-137: the next rule of the opcode
GenRule ==
    /\ pc = "gen"
    /\ rules # <<>>
    /\ LET r == EmitRule(Head(rules), rulenum)
       IN  IF r.ok
           THEN /\ w' = w \o r.code
                /\ rulenum' = rulenum + 1
                /\ rules' = Tail(rules)
                /\ pc' = pc
           ELSE /\ pc' = "fatal"
                /\ UNCHANGED <<w, rulenum, rules>>
    /\ UNCHANGED <<text, lineno, oprules, ops, runVars, splitVars>>

\* lines 139-141: the end of the switch and of the function
GenEnd ==
    /\ pc = "gen"
    /\ rules = <<>>
    /\ ops = <<>>
    /\ w' = w \o <<EndSwitch, Return("false")>>
    /\ pc' = "emitted"
    /\ UNCHANGED <<text, lineno, oprules, ops, rules, rulenum, runVars, splitVars>>

-----------------------------------------------------------------------------
(* The Values the emitted procedure runs on.  A reference is a place in     *)
(* heap; a Value has an opcode, a type, an aux and its arguments, which are *)
(* references.  Type 0 is TypeInvalid and aux 0 is nil.                     *)

TermOps == {<<"A">>, <<"N">>}
Types == {1, 2}
Auxes == {0, 2}

\* how many Values the heap the procedure is called on may hold: v alone, or
\* v and one or two more
HeapSizes == {1, 2, 3}

\* the children a Value at reference r of a heap of n Values may have
ArgLists(r, n) == UNION {[1..k -> (r + 1)..n] : k \in 0..MaxArgs}

RECURSIVE Reach(_, _)
\* the references reachable in h from those of the set rs
Reach(h, rs) ==
    LET more == rs \cup UNION {{h[r].Args[j] : j \in 1..Len(h[r].Args)} : r \in rs}
    IN  IF more = rs THEN rs ELSE Reach(h, more)

\* the Values at reference r; only v is given an aux
Nodes(r, n) ==
    [Op : TermOps, Type : Types, Aux : IF r = 1 THEN Auxes ELSE {0},
     Args : ArgLists(r, n)]

RECURSIVE HeapsFrom(_, _)
\* the Values at references r..n of a heap of n Values
HeapsFrom(r, n) ==
    IF r > n THEN {<<>>}
    ELSE {<<x>> \o rest : x \in Nodes(r, n), rest \in HeapsFrom(r + 1, n)}

\* the heaps the procedure is called on: v (reference 1) and its descendants
InitHeaps ==
    UNION {{h \in HeapsFrom(1, n) : Reach(h, {1}) = 1..n} : n \in HeapSizes}

-----------------------------------------------------------------------------
(* The emitted procedure, executed.  A Go value is a pair: a reference, a   *)
(* type, an aux or an opcode.                                               *)

Ref(r) == <<"ref", r>>
Fault == <<"fault", 0>>

\* the text of the rule files that is a Go literal rather than a variable
Literal(t) ==
    CASE t = NilText -> <<"aux", 0>>
      [] t = <<"2">> -> <<"aux", 2>>
      [] t = <<"T">> -> <<"type", 1>>
      [] t = <<"U">> -> <<"type", 2>>
      [] OTHER -> Fault

RECURSIVE Walk(_, _, _)
\* the reference v.Args[p1].Args[p2]... from reference r, or 0 where an
\* index is out of range
Walk(h, r, path) ==
    IF path = <<>> THEN r
    ELSE IF path[1] + 1 > Len(h[r].Args) THEN 0
    ELSE Walk(h, h[r].Args[path[1] + 1], Tail(path))

\* the value of an operand of a statement
Eval(e, h, vs) ==
    CASE e.k = "op" -> <<"op", e.text>>
      [] e.k = "text" -> IF e.text \in DOMAIN vs THEN vs[e.text] ELSE Literal(e.text)
      [] e.k = "path" ->
            IF e.text \notin DOMAIN vs \/ vs[e.text][1] # "ref" THEN Fault
            ELSE LET r == Walk(h, vs[e.text][2], e.path)
                 IN  IF r = 0 THEN Fault
                     ELSE IF e.fld = "" THEN Ref(r)
                     ELSE IF e.fld = "Op" THEN <<"op", h[r].Op>>
                     ELSE IF e.fld = "Type" THEN <<"type", h[r].Type>>
                     ELSE <<"aux", h[r].Aux>>
      [] OTHER -> Fault

\* the place in w of the statement "end<n>:;"
LabelAt(n) ==
    IF \E j \in 1..Len(w) : w[j].op = "label" /\ w[j].n = n
    THEN CHOOSE j \in 1..Len(w) : w[j].op = "label" /\ w[j].n = n
    ELSE Len(w) + 1

\* the place in w of the "}" closing the switch
SwitchEnd == CHOOSE j \in 1..Len(w) : w[j].op = "endswitch"

\* the variables in scope at the start of a block: the parameter v
Params == Bind(<<>>, VName, Ref(1))

Cur == w[ip]
Running(op) == pc = "run" /\ ip \in 1..Len(w) /\ w[ip].op = op

\* the caller: the procedure is called on a Value
Call ==
    /\ pc = "emitted"
    /\ \E h \in InitHeaps : heap' = h /\ entry' = h
    /\ env' = Params
    /\ ip' = 1
    /\ ret' = "none"
    /\ log' = <<>>
    /\ pc' = "run"
    /\ UNCHANGED <<genVars, splitVars>>

Step(next) ==
    /\ ip' = next
    /\ log' = Append(log, ip)
    /\ UNCHANGED <<pc, ret, entry, genVars, splitVars>>

Panic ==
    /\ pc' = "done"
    /\ ret' = "panic"
    /\ log' = Append(log, ip)
    /\ UNCHANGED <<ip, heap, env, entry, genVars, splitVars>>

\* switch v.Op: to the case of the opcode, or past the switch
ExecSwitch ==
    /\ Running("switch")
    /\ LET cases == {j \in 1..Len(w) : w[j].op = "case" /\ w[j].name = heap[1].Op}
       IN  IF cases = {} THEN Step(SwitchEnd + 1)
           ELSE Step((CHOOSE j \in cases : TRUE) + 1)
    /\ UNCHANGED <<heap, env>>

\* the end of a case clause: Go leaves the switch
ExecClauseEnd ==
    /\ pc = "run" /\ ip \in 1..Len(w) /\ w[ip].op \in {"case", "endswitch"}
    /\ Step(SwitchEnd + 1)
    /\ UNCHANGED <<heap, env>>

\* "{": the block of a rule, with no variable of an earlier block
ExecOpen ==
    /\ Running("open")
    /\ env' = Params
    /\ Step(ip + 1)
    /\ UNCHANGED heap

\* if a != b { goto end<n> }
ExecIfNe ==
    /\ Running("ifne")
    /\ LET a == Eval(Cur.a, heap, env)
           b == Eval(Cur.b, heap, env)
       IN  IF a = Fault \/ b = Fault THEN Panic
           ELSE /\ Step(IF a # b THEN LabelAt(Cur.n) ELSE ip + 1)
                /\ UNCHANGED <<heap, env>>

\* name := a
ExecDefine ==
    /\ Running("define")
    /\ LET a == Eval(Cur.a, heap, env)
       IN  IF a = Fault THEN Panic
           ELSE /\ env' = Bind(env, Cur.name, a)
                /\ Step(ip + 1)
                /\ UNCHANGED heap

\* if !(cond) { goto end<n> }: the condition is Go code this program never reads
ExecIfNot ==
    /\ Running("ifnot")
    /\ \E holds \in BOOLEAN : Step(IF holds THEN ip + 1 ELSE LabelAt(Cur.n))
    /\ UNCHANGED <<heap, env>>

\* name.Op = OpX, name.Type = t, name.Aux = x
ExecAssign ==
    /\ Running("assign")
    /\ LET r == env[Cur.name][2]
           a == Eval(Cur.a, heap, env)
       IN  heap' = [heap EXCEPT ![r] =
                       IF Cur.fld = "Op" THEN [@ EXCEPT !.Op = a[2]]
                       ELSE IF Cur.fld = "Type" THEN [@ EXCEPT !.Type = a[2]]
                       ELSE [@ EXCEPT !.Aux = a[2]]]
    /\ Step(ip + 1)
    /\ UNCHANGED env

\* v.Args = v.argstorage[:0]
ExecResetArgs ==
    /\ Running("reset")
    /\ heap' = [heap EXCEPT ![env[Cur.name][2]].Args = <<>>]
    /\ Step(ip + 1)
    /\ UNCHANGED env

\* name := v.Block.NewValue(OpX, TypeInvalid, nil)
ExecNewValue ==
    /\ Running("new")
    /\ heap' = Append(heap, [Op |-> Cur.a.text, Type |-> 0, Aux |-> 0, Args |-> <<>>])
    /\ env' = Bind(env, Cur.name, Ref(Len(heap) + 1))
    /\ Step(ip + 1)

\* name.AddArg(a)
ExecAddArg ==
    /\ Running("addarg")
    /\ heap' = [heap EXCEPT ![env[Cur.name][2]].Args =
                   Append(@, Eval(Cur.a, heap, env)[2])]
    /\ Step(ip + 1)
    /\ UNCHANGED env

\* name.SetType(): the type is inferred from the opcode and the arguments
ExecSetType ==
    /\ Running("settype")
    /\ \E t \in Types : heap' = [heap EXCEPT ![env[Cur.name][2]].Type = t]
    /\ Step(ip + 1)
    /\ UNCHANGED env

\* end<n>:;
ExecLabel ==
    /\ Running("label")
    /\ Step(ip + 1)
    /\ UNCHANGED <<heap, env>>

\* return true, return false
ExecReturn ==
    /\ Running("return")
    /\ pc' = "done"
    /\ ret' = Cur.fld
    /\ log' = Append(log, ip)
    /\ UNCHANGED <<ip, heap, env, entry, genVars, splitVars>>

-----------------------------------------------------------------------------
(* The rule files. *)

\* (A x x) -> (M x (C [2]))
RuleDouble ==
    <<"(", "A", " ", "x", " ", "x", ")", " ", "-", ">", " ", "(", "M", " ",
      "x", " ", "(", "C", " ", "[", "2", "]", ")", ")">>

\* (A x y) && c(x) -> (A y x)
RuleSwap ==
    <<"(", "A", " ", "x", " ", "y", ")", " ", "&", "&", " ", "c", "(", "x",
      ")", " ", "-", ">", " ", "(", "A", " ", "y", " ", "x", ")">>

\* (A x y) -> (S x (N y))
RuleSub ==
    <<"(", "A", " ", "x", " ", "y", ")", " ", "-", ">", " ", "(", "S", " ",
      "x", " ", "(", "N", " ", "y", ")", ")">>

\* (N (N x)) -> (I x)
RuleNest ==
    <<"(", "N", " ", "(", "N", " ", "x", ")", ")", " ", "-", ">", " ", "(",
      "I", " ", "x", ")">>

\* (A <t> x (N <t> y)) -> (M <t> (N x) (N <{U}> (I y)))
RuleTyped ==
    <<"(", "A", " ", "<", "t", ">", " ", "x", " ", "(", "N", " ", "<", "t",
      ">", " ", "y", ")", ")", " ", "-", ">", " ", "(", "M", " ", "<", "t",
      ">", " ", "(", "N", " ", "x", ")", " ", "(", "N", " ", "<", "{", "U",
      "}", ">", " ", "(", "I", " ", "y", ")", ")", ")">>

\* (N [k] x) -> (I [k] x) // keeps the aux
RuleAux ==
    <<"(", "N", " ", "[", "k", "]", " ", "x", ")", " ", "-", ">", " ", "(",
      "I", " ", "[", "k", "]", " ", "x", ")", " ", "/", "/", " ", "k", "e",
      "e", "p", "s", " ", "t", "h", "e", " ", "a", "u", "x">>

\* (N <{T}> x) && c(x) -> (C <{U}> [{2}] {x})
RuleTypeCode ==
    <<"(", "N", " ", "<", "{", "T", "}", ">", " ", "x", ")", " ", "&", "&",
      " ", "c", "(", "x", ")", " ", "-", ">", " ", "(", "C", " ", "<", "{",
      "U", "}", ">", " ", "[", "{", "2", "}", "]", " ", "{", "x", "}", ")">>

\* (A x y z) -> (M z y x)
RuleThree ==
    <<"(", "A", " ", "x", " ", "y", " ", "z", ")", " ", "-", ">", " ", "(",
      "M", " ", "z", " ", "y", " ", "x", ")">>

\* (A x) -> (N x)
RuleOne ==
    <<"(", "A", " ", "x", ")", " ", "-", ">", " ", "(", "N", " ", "x", ")">>

\* (N x) && c(x) -> x
RuleCopy ==
    <<"(", "N", " ", "x", ")", " ", "&", "&", " ", "c", "(", "x", ")", " ",
      "-", ">", " ", "x">>

\* (A <t> t) -> (N t)
RuleMixed ==
    <<"(", "A", " ", "<", "t", ">", " ", "t", ")", " ", "-", ">", " ", "(",
      "N", " ", "t", ")">>

\* (N x [x]) -> (I x)
RuleAuxMixed ==
    <<"(", "N", " ", "x", " ", "[", "x", "]", ")", " ", "-", ">", " ", "(",
      "I", " ", "x", ")">>

\* <tab>(A x {x}) -> (N x)
RulePin ==
    <<"\t", "(", "A", " ", "x", " ", "{", "x", "}", ")", " ", "-", ">", " ",
      "(", "N", " ", "x", ")">>

\* (A x y)
RuleNoArrow ==
    <<"(", "A", " ", "x", " ", "y", ")">>

\* // (A x y) -> y
RuleComment ==
    <<"/", "/", " ", "(", "A", " ", "x", " ", "y", ")", " ", "-", ">", " ",
      "y">>

\*  <tab>
RuleBlank ==
    <<" ", "\t">>

\* (K) -> (C [2])
RuleNullary ==
    <<"(", "K", ")", " ", "-", ">", " ", "(", "C", " ", "[", "2", "]", ")">>

\* (N<tab>x) -> (I x)
RuleTab ==
    <<"(", "N", "\t", "x", ")", " ", "-", ">", " ", "(", "I", " ", "x", ")">>

\* ( A x y) -> (N x)
RuleSpaced ==
    <<"(", " ", "A", " ", "x", " ", "y", ")", " ", "-", ">", " ", "(", "N",
      " ", "x", ")">>

\* the rule files the compiler is run on
RuleFiles ==
    { <<>>,
      <<RuleComment, RuleDouble, RuleNest, RuleSwap, RuleBlank, RuleSub>>,
      <<RuleTyped, RuleTypeCode, RuleCopy>>,
      <<RuleMixed, RuleAuxMixed, RuleAux, RulePin, RuleThree, RuleOne>>,
      <<RuleSwap, RuleNoArrow>> }

Init ==
    /\ pc = "read"
    /\ text \in RuleFiles
    /\ lineno = 0
    /\ oprules = <<>> /\ ops = <<>> /\ rules = <<>>
    /\ rulenum = 0 /\ w = <<>>
    /\ heap = <<>> /\ entry = <<>> /\ env = <<>> /\ ip = 0
    /\ ret = "none" /\ log = <<>>
    /\ sIn = <<>> /\ sOut = NoOutput

Next ==
    \/ ReadLine \/ ReadDone \/ GenCase \/ GenRule \/ GenEnd
    \/ Call
    \/ ExecSwitch \/ ExecClauseEnd \/ ExecOpen \/ ExecIfNe \/ ExecDefine
    \/ ExecIfNot \/ ExecAssign \/ ExecResetArgs \/ ExecNewValue \/ ExecAddArg
    \/ ExecSetType \/ ExecLabel \/ ExecReturn

Spec == Init /\ [][Next]_vars

-----------------------------------------------------------------------------
(* The specification of the reader alone: every short file over ReadLines. *)

ReadLines ==
    {RuleDouble, RuleSub, RuleNest, RuleAux, RulePin, RuleComment, RuleBlank,
     RuleNullary, RuleTab, RuleSpaced}

InitRead ==
    /\ pc = "read"
    /\ text \in UNION {[1..k -> ReadLines] : k \in 0..MaxLines}
    /\ lineno = 0
    /\ oprules = <<>> /\ ops = <<>> /\ rules = <<>>
    /\ rulenum = 0 /\ w = <<>>
    /\ heap = <<>> /\ entry = <<>> /\ env = <<>> /\ ip = 0
    /\ ret = "none" /\ log = <<>>
    /\ sIn = <<>> /\ sOut = NoOutput

NextRead == ReadLine \/ ReadDone

SpecRead == InitRead /\ [][NextRead]_vars

\* the opcode genMatch0 reads in the match of a rule line: s[0] of line 191
MatchTag(line) ==
    LET m == RuleParts(line).match
        s == split(Inner(m))
    IN  IF m # <<>> /\ m[1] = "(" /\ s.ok /\ s.r # <<>> THEN s.r[1] ELSE <<>>

\* the rule lines among the first n lines of the file
Scanned(n) ==
    LET Kept(l) == l # <<>>
    IN  SelectSeq([i \in 1..n |-> StripLine(text[i])], Kept)

\* C6: every rule line is in the group keyed by the opcode of its top-level
\* match pattern, the opcode the pattern compiler reads, and the rules of a
\* group are in their order in the file.
C6_GroupKeyIsMatchTag ==
    LET lines == Scanned(lineno)
    IN  /\ \A i \in 1..Len(lines) : MatchTag(lines[i]) \in DOMAIN oprules
        /\ \A op \in DOMAIN oprules :
              LET Tagged(l) == MatchTag(l) = op
              IN  oprules[op] = SelectSeq(lines, Tagged)

-----------------------------------------------------------------------------
(* What the claims speak of: the rules by number, the rules a call tried,   *)
(* and the places of a pattern.                                             *)

\* every rule line of the rule files, as the reader keeps it
AllRules ==
    {StripLine(l) : l \in UNION {{f[i] : i \in 1..Len(f)} : f \in RuleFiles}} \ {<<>>}

\* the parts, the key and the code of every rule line, computed once
PartsOf == [l \in AllRules |-> RuleParts(l)]
KeyOf == [l \in AllRules |-> OpKey(l)]

RECURSIVE Flatten(_)
\* the rule lines of the groups of the sorted keys ks, in the order main
\* numbers them
Flatten(ks) ==
    IF ks = <<>> THEN <<>> ELSE oprules[ks[1]] \o Flatten(Tail(ks))

Numbered == Flatten(SortStrings(DOMAIN oprules))

\* the line of rule number k, counted from 0
RuleLine(k) == Numbered[k + 1]

\* the numbers of the rules of the group of opcode opc, in file order
GroupRules(opc) ==
    LET lines == Numbered
    IN  {k \in 0..(Len(lines) - 1) : KeyOf[lines[k + 1]] = opc}

\* the statements of w that belong to the block of a rule
InRule(j) == w[j].op \notin {"switch", "case", "endswitch"} /\ w[j].fld # "false"

\* the number of the rule whose block holds statement j of w
RuleAt(j) ==
    LET after == {l \in j..Len(w) : w[l].op = "label"}
    IN  w[CHOOSE l \in after : \A l2 \in after : l <= l2].n

\* the place in w of the "{" that opens the block of rule k
BlockStart(k) ==
    LET opens == {j \in 1..LabelAt(k) : w[j].op = "open"}
    IN  CHOOSE j \in opens : \A j2 \in opens : j2 <= j

\* the places of log at which a statement of rule k was executed
Places(k) == {p \in 1..Len(log) : InRule(log[p]) /\ RuleAt(log[p]) = k}

\* the rules the call has entered
Attempted == {RuleAt(log[p]) : p \in {q \in 1..Len(log) : w[log[q]].op = "open"}}

\* a check of rule k failed and the call went to end<k>
FellThrough(k) ==
    \E p \in Places(k) :
        /\ w[log[p]].op \in {"ifne", "ifnot"}
        /\ (IF p < Len(log) THEN log[p + 1] ELSE ip) = LabelAt(k)

\* the call returned true from the block of rule k
Won(k) == pc = "done" /\ ret = "true" /\ RuleAt(ip) = k

\* the statements of rule k the call executed, in order
Executed(k) ==
    LET Mine(j) == InRule(j) /\ RuleAt(j) = k
        mine == SelectSeq(log, Mine)
    IN  [p \in 1..Len(mine) |-> w[mine[p]]]

IsPositional(a) == a[1] \notin {"<", "["}

\* the tokens after the opcode of an op-node, and those that take a child slot
Tokens(pat) == Tail(split(Inner(pat)).r)
Slots(pat) == SelectSeq(Tokens(pat), IsPositional)
TagOf(pat) == split(Inner(pat)).r[1]

RECURSIVE Occs(_, _, _)
\* The places of a match pattern: every op-node (kind "op", with its number
\* n of child slots), and every name in variable, <type> or [aux] position,
\* each with the path of the Value it is matched against and its place ord
\* in left-to-right order.
Occs(pat, path, ord) ==
    IF pat[1] # "(" THEN {[kind |-> "var", name |-> pat, path |-> path, ord |-> ord, n |-> 0]}
    ELSE LET ts == Tokens(pat)
             ArgNum(i) == Len(SelectSeq(SubSeq(ts, 1, i - 1), IsPositional))
             Of(i) ==
                LET a == ts[i]
                IN  IF a[1] \in {"<", "["}
                    THEN IF Inner(a)[1] = "{" THEN {}
                         ELSE {[kind |-> IF a[1] = "<" THEN "type" ELSE "aux",
                                name |-> Inner(a), path |-> path,
                                ord |-> Append(ord, i), n |-> 0]}
                    ELSE IF a[1] = "{" THEN {}
                    ELSE Occs(a, Append(path, ArgNum(i)), Append(ord, i))
         IN  {[kind |-> "op", name |-> TagOf(pat), path |-> path, ord |-> ord,
               n |-> Len(Slots(pat))]}
             \cup UNION {Of(i) : i \in 1..Len(ts)}

\* the places of the match pattern of every rule line that has an arrow
OccsOf ==
    [l \in AllRules |-> IF PartsOf[l].ok THEN Occs(PartsOf[l].match, <<>>, <<>>) ELSE {}]

\* the places of the match pattern of rule k
MatchOccs(k) == OccsOf[RuleLine(k)]

RECURSIVE Before(_, _)
\* place a is left of place b
Before(a, b) ==
    IF a = <<>> \/ b = <<>> THEN FALSE
    ELSE IF a[1] # b[1] THEN a[1] < b[1]
    ELSE Before(Tail(a), Tail(b))

\* what the emitted code reads at a place
ExprAt(o) ==
    PathExpr(VName, o.path,
             IF o.kind = "type" THEN "Type" ELSE IF o.kind = "aux" THEN "Aux" ELSE "")

\* the places of a name of rule k, and the leftmost of them
NameOccs(k, name) == {o \in MatchOccs(k) : o.kind # "op" /\ o.name = name}
First(k, name) ==
    CHOOSE o \in NameOccs(k, name) : \A o2 \in NameOccs(k, name) \ {o} : Before(o.ord, o2.ord)

\* the value the heap of the call held at a place, or 0 off the end of a
\* Value's children
RefAt(o) == Walk(entry, 1, o.path)

-----------------------------------------------------------------------------
(* The claims. *)

\* C1: the rules of the group the opcode of the Term selects are tried in
\* file order; a rule is tried only after every earlier rule of the group
\* failed a check; when rule k passes, the procedure executes exactly the
\* code of rule k and returns true, and no check of a later rule or of
\* another group is executed; it returns false only after every rule of the
\* group failed.
C1_FirstMatchWins ==
    pc = "done" =>
        LET grp == GroupRules(entry[1].Op)
            tried == Attempted
        IN  /\ tried \subseteq grp
            /\ \A p \in 1..Len(log) : InRule(log[p]) => RuleAt(log[p]) \in tried
            /\ \A j \in tried : \A i \in grp : i < j => i \in tried /\ FellThrough(i)
            /\ ret = "true" =>
                  LET k == RuleAt(ip)
                  IN  /\ k \in tried /\ ~FellThrough(k)
                      /\ \A j \in tried : j <= k
                      /\ Executed(k) = SubSeq(w, BlockStart(k), LabelAt(k) - 2)
            /\ ret = "false" => tried = grp /\ \A j \in grp : FellThrough(j)

\* C1 witness: a rule wins after an earlier rule of its group failed, with a
\* later rule of the group left untried.
C1_Witness ==
    /\ pc = "done" /\ ret = "true"
    /\ \E i, k, j \in GroupRules(entry[1].Op) :
          i < k /\ k < j /\ Won(k) /\ FellThrough(i) /\ j \notin Attempted

\* the names of rule k that stand in variable position only, more than once
Repeated(k) ==
    {o.name : o \in {o \in MatchOccs(k) : o.kind = "var"
                        /\ \A o2 \in NameOccs(k, o.name) : o2.kind = "var"
                        /\ Cardinality(NameOccs(k, o.name)) > 1}}

\* the places of log at which rule k compared a later place of a name with
\* its first place
Compared(k, o) ==
    {p \in Places(k) : w[log[p]] = IfNe(ExprAt(o), ExprAt(First(k, o.name)), k)}

\* the statement executed after place p of log
Then(p) == IF p < Len(log) THEN log[p + 1] ELSE ip

\* C2: a name that stands in two places of a match pattern is bound at the
\* leftmost place and never bound again; at every later place the matcher
\* compares references: the rule falls through when the Value at the later
\* place is not the very Value at the first place, and goes on when it is;
\* a rule that wins has the same reference at all the places of the name.
C2_RepeatedVariable ==
    pc = "done" =>
        \A k \in Attempted : \A name \in Repeated(k) :
            LET first == First(k, name)
            IN  /\ Cardinality({p \in Places(k) : w[log[p]].op = "define"
                                    /\ w[log[p]].name = name}) <= 1
                /\ \A p \in Places(k) :
                      (w[log[p]].op = "define" /\ w[log[p]].name = name)
                          => w[log[p]].a = ExprAt(first)
                /\ Won(k) => env[name] = Ref(RefAt(first)) /\ RefAt(first) # 0
                /\ \A o \in NameOccs(k, name) \ {first} :
                      /\ Won(k) => Compared(k, o) # {} /\ RefAt(o) = RefAt(first)
                      /\ \A p \in Compared(k, o) :
                            /\ Then(p) = LabelAt(k) => RefAt(o) # RefAt(first)
                            /\ (Then(p) # LabelAt(k) /\ ret # "panic")
                                  => RefAt(o) = RefAt(first)

\* C2 witness: a rule with a repeated name falls through on two distinct
\* Values of equal opcode, type, aux and arguments.
C2_Witness ==
    /\ pc = "done"
    /\ \E k \in Attempted : \E name \in Repeated(k) :
          \E o \in NameOccs(k, name) \ {First(k, name)} :
              /\ \E p \in Compared(k, o) : Then(p) = LabelAt(k)
              /\ RefAt(o) # RefAt(First(k, name))
              /\ entry[RefAt(o)] = entry[RefAt(First(k, name))]

\* the op-nodes of rule k whose Value, on entry, has a number of children
\* other than the number of child slots of the op-node
Mismatched(k) ==
    {o \in MatchOccs(k) : o.kind = "op" /\ RefAt(o) # 0
                            /\ Len(entry[RefAt(o)].Args) # o.n}

\* the call stopped with a run-time fault in the block of rule k
Faulted(k) == pc = "done" /\ ret = "panic" /\ RuleAt(ip) = k

\* C3: a rule tried on a Term with an op-node whose Value has a number of
\* children other than the op-node's number of child slots falls through:
\* the procedure neither faults on a child access in the rule nor applies it.
C3_ArityMismatchFallsThrough ==
    pc = "done" =>
        \A k \in Attempted :
            Mismatched(k) # {} => FellThrough(k) /\ ~Faulted(k) /\ ~Won(k)

\* C5: when the procedure returns true the Term has been rewritten to the
\* result of the winning rule: for an op-node result the Term carries the
\* result's opcode, and for a bare variable the Term is no longer what it was
\* on entry but what the variable was bound to.
C5_TrueIffRewritten ==
    (pc = "done" /\ ret = "true") =>
        LET res == PartsOf[RuleLine(RuleAt(ip))].result
        IN  IF res[1] = "("
            THEN heap[1].Op = TagOf(res)
            ELSE /\ heap[1] # entry[1]
                 /\ res \in DOMAIN env /\ env[res][1] = "ref"
                 /\ heap[1] = entry[env[res][2]]

\* the statements that change a Value or allocate one, and those of a match
Mutators == {"assign", "reset", "new", "addarg", "settype"}
Checks == {"open", "ifne", "define", "ifnot", "label"}

\* the places of log at which a Value was changed or allocated
Mutations == {p \in 1..Len(log) : w[log[p]].op \in Mutators}

\* C10: in a finished call, once a statement has changed or allocated a
\* Value no check, binding, guard or label was executed any more, so a rule
\* that fell through changed nothing and allocated nothing; a call without
\* such a statement leaves the heap as it was on entry, and when the
\* procedure returns false the Term and every other Value are as they were
\* on entry.
C10_FallthroughLeavesTerm ==
    pc = "done" =>
        /\ Mutations = {} => heap = entry
        /\ \A p \in Mutations : \A q \in p..Len(log) : w[log[q]].op \notin Checks
        /\ \A k \in Attempted : FellThrough(k) => Places(k) \cap Mutations = {}
        /\ ret = "false" => heap = entry

\* C10 witness: the procedure returns false after a rule passed every
\* structural check and failed its condition guard.
C10_Witness ==
    /\ pc = "done" /\ ret = "false" /\ heap = entry
    /\ \E k \in Attempted : \E p \in Places(k) :
          w[log[p]].op = "ifnot" /\ Then(p) = LabelAt(k)

IsOpNode(a) == a[1] = "("
IsAuxToken(a) == a[1] = "["
IsTypeToken(a) == a[1] = "<"

RECURSIVE Size(_)
\* the number of op-nodes of a result expression
Size(res) ==
    IF ~IsOpNode(res) THEN 0
    ELSE LET slots == Slots(res)
             Sum[j \in 0..Len(slots)] == IF j = 0 THEN 0 ELSE Sum[j - 1] + Size(slots[j])
         IN  1 + Sum[Len(slots)]

\* the value the winning rule gave a name or a piece of Go code of its result
ValueOf(t) == Eval(TextExpr(t), heap, env)[2]

RECURSIVE Built(_, _, _)
\* The Value at reference r is what the op-node res of a result expression
\* describes, its nested op-nodes being the Values allocated after reference
\* base, in the order the op-nodes open in res.
Built(res, r, base) ==
    LET slots == Slots(res)
        auxes == SelectSeq(Tokens(res), IsAuxToken)
        Opened[j \in 0..Len(slots)] == IF j = 0 THEN 0 ELSE Opened[j - 1] + Size(slots[j])
        Child(j) ==
            IF IsOpNode(slots[j]) THEN base + Opened[j - 1] + 1
            ELSE IF slots[j][1] = "{" THEN ValueOf(Inner(slots[j]))
            ELSE RefAt(First(RuleAt(ip), slots[j]))
    IN  /\ heap[r].Op = TagOf(res)
        /\ heap[r].Aux = IF auxes = <<>> THEN 0 ELSE ValueOf(Unbrace(auxes[Len(auxes)]))
        /\ heap[r].Args = [j \in 1..Len(slots) |-> Child(j)]
        /\ \A j \in 1..Len(slots) :
              IsOpNode(slots[j]) => Built(slots[j], Child(j), Child(j))

\* the result expression of the rule that won
WinResult == PartsOf[RuleLine(RuleAt(ip))].result

\* C8: when a rule with an op-node result wins, the Term is still the Value
\* the procedure was called on and carries the result's opcode, a nil aux
\* unless the result gives one, and as children, in order, the Values of
\* the result's child slots: the Value a variable was bound to by the match,
\* and a newly allocated Value for each nested op-node; one Value is
\* allocated per nested op-node and none otherwise, and no other Value that
\* existed on entry is changed.
C8_ResultConstruction ==
    (pc = "done" /\ ret = "true" /\ IsOpNode(WinResult)) =>
        /\ env[VName] = Ref(1)
        /\ Len(heap) = Len(entry) + Size(WinResult) - 1
        /\ Built(WinResult, 1, Len(entry))
        /\ \A r \in 2..Len(entry) : heap[r] = entry[r]

\* C8 witness: (A x y) -> (S x (N y)) wins on a Term with two distinct
\* children: one Value is allocated, for (N y), and the Term holds x and it.
C8_Witness ==
    /\ pc = "done" /\ ret = "true"
    /\ RuleLine(RuleAt(ip)) = RuleSub
    /\ entry[1].Args[1] # entry[1].Args[2]
    /\ Len(heap) = Len(entry) + 1
    /\ heap[1].Args = <<entry[1].Args[1], Len(heap)>>
    /\ heap[Len(heap)].Args = <<entry[1].Args[2]>>

RECURSIVE Nested(_)
\* the op-nodes below the top of a result expression, in the order they open
Nested(res) ==
    IF ~IsOpNode(res) THEN <<>>
    ELSE LET slots == Slots(res)
             Cat[j \in 0..Len(slots)] ==
                IF j = 0 THEN <<>>
                ELSE Cat[j - 1] \o (IF IsOpNode(slots[j])
                                    THEN <<slots[j]>> \o Nested(slots[j]) ELSE <<>>)
         IN  Cat[Len(slots)]

\* the type restrictions of an op-node
TypeTokens(res) == SelectSeq(Tokens(res), IsTypeToken)

\* the places of log at which statement op was executed on the Go variable name
Did(op, name) ==
    {p \in 1..Len(log) : w[log[p]].op = op /\ w[log[p]].name = name}

\* the places of log at which the Go variable name was appended to a Value
Appended(name) ==
    {p \in 1..Len(log) : w[log[p]].op = "addarg" /\ w[log[p]].a = TextExpr(name)}

\* C9: when a rule wins, SetType is called once on each nested op-node of
\* the result that has no type restriction, after every child of the node
\* was appended to it and before the node is appended to its parent, and is
\* called on nothing else: not on a nested op-node with a type restriction
\* and never on the Term, whose type is the one its type restriction gives
\* or else the type it had on entry.
C9_TypeInference ==
    (pc = "done" /\ ret = "true") =>
        LET nested == Nested(WinResult)
            Name(i) == VName \o Itoa(i - 1)
            Untyped == {i \in 1..Len(nested) : TypeTokens(nested[i]) = <<>>}
            top == IF IsOpNode(WinResult) THEN TypeTokens(WinResult) ELSE <<>>
        IN  /\ \A i \in 1..Len(nested) :
                  /\ Cardinality(Did("settype", Name(i))) = IF i \in Untyped THEN 1 ELSE 0
                  /\ Cardinality(Did("addarg", Name(i))) = Len(Slots(nested[i]))
                  /\ Cardinality(Appended(Name(i))) = 1
                  /\ \A p \in Did("settype", Name(i)) :
                        /\ \A q \in Did("new", Name(i)) \cup Did("addarg", Name(i)) : q < p
                        /\ \A q \in Appended(Name(i)) : p < q
            /\ Did("settype", VName) = {}
            /\ Cardinality({p \in 1..Len(log) : w[log[p]].op = "settype"})
                  = Cardinality(Untyped)
            /\ heap[1].Type = IF top = <<>> THEN entry[1].Type
                              ELSE ValueOf(Unbrace(top[Len(top)]))

\* C9 witness: (A <t> x (N <t> y)) -> (M <t> (N x) (N <{U}> (I y))) wins:
\* SetType is called on (N x) and on (I y), not on the typed (N <{U}> ..)
\* and not on the Term, which keeps the type t.
C9_Witness ==
    /\ pc = "done" /\ ret = "true"
    /\ RuleLine(RuleAt(ip)) = RuleTyped
    /\ Cardinality({p \in 1..Len(log) : w[log[p]].op = "settype"}) = 2
    /\ Did("settype", VName \o Itoa(1)) = {}
    /\ heap[Len(entry) + 2].Type = 2
    /\ heap[1].Type = entry[1].Type

\* the statements of w in the block of rule k
Block(k) == BlockStart(k)..LabelAt(k)

\* the name places of rule k: variables, <type> names and [aux] names
NamePlaces(k) == {o \in MatchOccs(k) : o.kind # "op"}

\* were a constraint name kept apart from the variables: the space of a place
Space(o) == IF o.kind = "var" THEN "variable" ELSE "constraint"

\* the leftmost place of the name of o among the places of its own space
FirstInSpace(k, o) ==
    LET same == {o2 \in NameOccs(k, o.name) : Space(o2) = Space(o)}
    IN  CHOOSE o1 \in same : \A o2 \in same \ {o1} : Before(o1.ord, o2.ord)

\* C4 as stated: names in <type> or [aux] position and names in variable
\* position are kept apart, so the leftmost place of a name in either space
\* is a fresh binding even when the other space holds the same text.
C4_IndependentNamespaces ==
    pc = "emitted" =>
        \A k \in 0..(rulenum - 1) : \A o \in NamePlaces(k) :
            o = FirstInSpace(k, o) =>
                \E j \in Block(k) : w[j] = Define(o.name, ExprAt(o))

\* C4 amended: the names of a rule in variable, <type> and [aux] position
\* share one environment: the leftmost place of a name, whatever its
\* position, is its only binding, and every later place of the same text, in
\* any position, is a comparison of what is read there with that binding,
\* which sends the rule to its end label when they differ.
C4_SharedEnvironment ==
    pc = "emitted" =>
        \A k \in 0..(rulenum - 1) : \A o \in NamePlaces(k) :
            LET first == First(k, o.name)
                defs == {j \in Block(k) : w[j].op = "define" /\ w[j].name = o.name}
            IN  /\ Cardinality(defs) = 1
                /\ \A j \in defs : w[j] = Define(o.name, ExprAt(first))
                /\ o # first =>
                      \E j \in Block(k) :
                          /\ w[j] = IfNe(ExprAt(o), ExprAt(first), k)
                          /\ \A d \in defs : d < j
                /\ o = first =>
                      \A j \in Block(k) :
                          ~(w[j].op = "ifne" /\ w[j].a = ExprAt(o) /\ w[j].b.k = "path")

\* C4 witness: (A <t> t) -> (N t) was tried on a Term with a child: t was
\* bound to the type of the Term, the child was compared with it, and the
\* rule fell through.
C4_Witness ==
    /\ pc = "done"
    /\ \E k \in Attempted :
          /\ RuleLine(k) = RuleMixed
          /\ \E p \in Places(k) :
                /\ w[log[p]] = IfNe(PathExpr(VName, <<0>>, ""), PathExpr(VName, <<>>, "Type"), k)
                /\ Then(p) = LabelAt(k)
          /\ \E p \in Places(k) :
                w[log[p]] = Define(<<"t">>, PathExpr(VName, <<>>, "Type"))

=============================================================================
